---- MODULE Spec2Model ----
(***************************************************************************)
(* A model of main.py of steam-hss-data: the snapshot registry built by    *)
(* build_metadata, the two page parsers (old_parser, modern_parser) with   *)
(* their dispatch in parse_data_content, and clean_and_normalize with the  *)
(* merge of the per-subset tables.                                         *)
(*                                                                         *)
(* Strings are TLA+ strings; formatting and parsing (f-strings, strptime,  *)
(* float, the regular expressions) are computed character by character.    *)
(* Percentages are held in hundredths (45.23 is 4523).                     *)
(***************************************************************************)
EXTENDS Integers, Sequences, FiniteSets, TLC

VARIABLES
    \* ---- build_metadata ----
    files,        \* metadata_{subset}.csv: whether it exists, and its rows
    archive,      \* the capture timestamps the archive holds
    pc,           \* position of build_metadata: idle, loop, response, done, killed
    subset,       \* argument subset of the current run
    reset_file,   \* argument reset_file of the current run
    year_start,   \* argument year_start
    year_end,     \* argument year_end
    metadata,     \* the date_code column read at line 26
    year,         \* loop variables of line 30
    month,
    num_retry,
    payload,
    r,            \* r.json()["archived_snapshots"]: {} or {closest}
    delays,       \* the time.sleep calls of the retry loop for the current month
    \* ---- parse_data_content, old_parser, modern_parser ----
    ppc,              \* position: idle, rows, old, oldgroup, modern, moderngroup,
                      \* returned, failed, written
    row,              \* date_code of the metadata row being parsed
    agg_ram,          \* argument agg_ram of old_parser
    data_json,        \* the mapping a parser builds: category -> item -> value
    name,             \* name.text.strip() of the category being parsed
    content,          \* the cells (divs) of the category being parsed, in order
    cols,             \* grouping width
    gi,               \* number of groups of the category consumed so far
    item,             \* locals of the inner loops
    value,
    steam_hw_survey,  \* number of reports appended (line 178)
    seen,             \* OS family names processed on the page, in first-seen order
    total_titled,     \* a category of the page is titled "OS Version (total)"
    \* ---- clean_and_normalize and the merge of __main__ ----
    survey_data,      \* survey_data_{subset}.json: whether it exists, its reports
    tables,           \* steam_hw_survey_{subset}.parquet: whether it exists, its rows
    final             \* steam_hw_survey.parquet

metaVars == <<files, archive, pc, subset, reset_file, year_start, year_end,
              metadata, year, month, num_retry, payload, r, delays>>

parseVars == <<ppc, row, agg_ram, data_json, name, content, cols, gi, item, value,
               steam_hw_survey, seen, total_titled>>

normVars == <<survey_data, tables, final>>

vars == <<metaVars, parseVars, normVars>>

(***************************************************************************)
(* Bounds                                                                  *)
(***************************************************************************)
\* months iterated per year: range(1, 13) is cut to 1..MaxMonth
MaxMonth == 2
\* the archive answers "no snapshot" at most MaxRetry times in a row
MaxRetry == 2
\* reports appended by one call of parse_data_content
MaxPages == 2
\* table rows of a category block of the old layout
MaxRows == 2
\* reports in one survey_data file
MaxReports == 1

Subsets == {"combined", "pc"}
\* year_start: the survey years 2004..2021 are cut to 2008..2009, which keeps the
\* change of url at 2009; the platform subsets start later than the combined one
\* (lines 287-292)
YearStarts(s) == IF s = "combined" THEN {2008, 2009} ELSE {2009}
\* year_end: the default 2022 of line 19 is cut to 2010
YearEnds == {2010}

(***************************************************************************)
(* Text helpers                                                            *)
(***************************************************************************)
Char(s, i) == SubSeq(s, i, i)

\* Python's None
None == "None"

Digits == "0123456789"

IsDigit(c) == \E d \in 0..9 : Char(Digits, d + 1) = c

DigitVal(c) == CHOOSE d \in 0..9 : Char(Digits, d + 1) = c

\* int() of a string of decimal digits
RECURSIVE ParseInt(_)
ParseInt(s) ==
    IF Len(s) = 0 THEN 0
    ELSE 10 * ParseInt(SubSeq(s, 1, Len(s) - 1)) + DigitVal(Char(s, Len(s)))

\* str() of a natural number
RECURSIVE IntToStr(_)
IntToStr(n) ==
    IF n < 10 THEN Char(Digits, n + 1)
    ELSE IntToStr(n \div 10) \o Char(Digits, (n % 10) + 1)

\* the format {month:02d}
Pad2(n) == IF n < 10 THEN "0" \o IntToStr(n) ELSE IntToStr(n)

(***************************************************************************)
(* build_metadata                                                          *)
(***************************************************************************)
_RETRY_SLEEP == 5

\* a metadata file that does not exist
NoFile == [exists |-> FALSE, rows |-> <<>>]

EmptyFile == [exists |-> TRUE, rows |-> <<>>]

\* line 33: date_code = f"{year}{month:02d}"
DateCode(y, m) == IntToStr(y) \o Pad2(m)

\* lines 41-46: the url queried
PayloadUrl(s, y) ==
    IF y < 2009 /\ s = "combined"
    THEN "http://www.steampowered.com/status/survey.html"
    ELSE IF s = "combined"
    THEN "https://store.steampowered.com/hwsurvey"
    ELSE "https://store.steampowered.com/hwsurvey?platform=" \o s

\* line 49: the mid-month timestamp
PayloadTimestamp(date_code) == date_code \o "15"

\* datetime.strptime(ts, "%Y%m%d") and "%Y%m%d%H%M%S": the year and month fields
TsYear(ts) == ParseInt(SubSeq(ts, 1, 4))
TsMonth(ts) == ParseInt(SubSeq(ts, 5, 6))

\* The capture timestamps the archive may hold for the survey page.
Captures ==
    { "20080115093012", "20090202110000" }

\* the day a timestamp YYYYMMDDhhmmss (or YYYYMMDD) falls on, on a scale that
\* keeps the order of days
TsDay(ts) == (TsYear(ts) * 12 + TsMonth(ts)) * 31 + ParseInt(SubSeq(ts, 7, 8))

Distance(a, b) == IF a < b THEN b - a ELSE a - b

\* the capture the availability API calls "closest" to the timestamp asked
Closest(ts) ==
    CHOOSE c \in archive :
        \A d \in archive : Distance(TsDay(c), TsDay(ts)) <= Distance(TsDay(d), TsDay(ts))

Snapshot(url, ts) ==
    [url |-> "http://web.archive.org/web/" \o ts \o "/" \o url, timestamp |-> ts]

\* lines 51 and 54: one GET of the availability API.  The answer is {} (no
\* archived snapshot) only while mayBeEmpty, else the closest capture.
Request(mayBeEmpty, p, resp) ==
    \/ /\ mayBeEmpty
       /\ resp = {}
    \/ resp = {Snapshot(p.url, Closest(p.timestamp))}

\* mutant: the membership test always answers no
AlreadyRecordedNever(md, date_code) == FALSE

\* line 35: metadata["date_code"].isin([date_code]).any()
AlreadyRecorded(md, date_code) == date_code \in md

\* mutant: only the months are compared
SameMonthOnly(payload_ts, snapshot_ts) ==
    TsMonth(payload_ts) = TsMonth(snapshot_ts)

\* lines 60-64: the snapshot is from the month and year asked
SameMonthAndYear(payload_ts, snapshot_ts) ==
    /\ TsMonth(payload_ts) = TsMonth(snapshot_ts)
    /\ TsYear(payload_ts) = TsYear(snapshot_ts)

\* lines 62-67
NewData(date_code, payload_ts, r_snapshot) ==
    IF SameMonthAndYear(payload_ts, r_snapshot.timestamp)
    THEN <<date_code, r_snapshot.url, r_snapshot.timestamp \o ".txt">>
    ELSE <<date_code, None, None>>

\* to_csv of one row: None is written as an empty field
CsvField(v) == IF v = None THEN "" ELSE v

CsvRow(new_data) ==
    [date_code |-> CsvField(new_data[1]),
     archive_url |-> CsvField(new_data[2]),
     file_name |-> CsvField(new_data[3])]

\* mutant: a constant delay
RetryDelayConstant(n) == _RETRY_SLEEP

\* line 53: the delay before the retry numbered num_retry
RetryDelay(n) == _RETRY_SLEEP * n

\* mutant: the file is not read back
DateCodeColumnUnread(rows) == {}

\* the column date_code of the file read at line 26
DateCodeColumn(rows) == { rows[i].date_code : i \in 1..Len(rows) }

InRange == year < year_end

\* the step of itertools.product(range(year_start, year_end), range(1, 13))
Advance ==
    IF month < MaxMonth
    THEN /\ month' = month + 1
         /\ year' = year
    ELSE /\ month' = 1
         /\ year' = year + 1

NoPayload == [url |-> None, timestamp |-> None]

\* lines 21-27: the file is created when absent or reset, then read
BuildMetadata(s, reset, ys, ye) ==
    /\ pc \in {"idle", "done", "killed"}
    /\ files' = IF ~files[s].exists \/ reset
                THEN [files EXCEPT ![s] = EmptyFile]
                ELSE files
    /\ metadata' = DateCodeColumn(files'[s].rows)
    /\ subset' = s
    /\ reset_file' = reset
    /\ year_start' = ys
    /\ year_end' = ye
    /\ year' = ys
    /\ month' = 1
    /\ num_retry' = 1
    /\ payload' = NoPayload
    /\ r' = {}
    /\ delays' = <<>>
    /\ pc' = "loop"
    /\ UNCHANGED archive
    /\ UNCHANGED <<parseVars, normVars>>

Start ==
    \E s \in Subsets, reset \in BOOLEAN :
        \E ys \in YearStarts(s), ye \in YearEnds :
            BuildMetadata(s, reset, ys, ye)

\* lines 35-39: a month already in the registry is skipped
Skip ==
    /\ pc = "loop"
    /\ InRange
    /\ AlreadyRecorded(metadata, DateCode(year, month))
    /\ num_retry' = 1
    /\ Advance
    /\ UNCHANGED <<files, archive, pc, subset, reset_file, year_start, year_end,
                   metadata, payload, r, delays>>
    /\ UNCHANGED <<parseVars, normVars>>

\* lines 41-51: the first lookup of a month
Lookup ==
    /\ pc = "loop"
    /\ InRange
    /\ ~AlreadyRecorded(metadata, DateCode(year, month))
    /\ num_retry' = 1
    /\ payload' = [url |-> PayloadUrl(subset, year),
                   timestamp |-> PayloadTimestamp(DateCode(year, month))]
    /\ Request(MaxRetry > 0, payload', r')
    /\ UNCHANGED archive
    /\ delays' = <<>>
    /\ pc' = "response"
    /\ UNCHANGED <<files, subset, reset_file, year_start, year_end, metadata,
                   year, month>>
    /\ UNCHANGED <<parseVars, normVars>>

\* lines 52-55: one turn of the retry loop
Retry ==
    /\ pc = "response"
    /\ r = {}
    /\ delays' = Append(delays, RetryDelay(num_retry))
    /\ payload' = payload
    /\ Request(num_retry < MaxRetry, payload, r')
    /\ UNCHANGED archive
    /\ num_retry' = num_retry + 1
    /\ UNCHANGED <<files, pc, subset, reset_file, year_start, year_end, metadata,
                   year, month>>
    /\ UNCHANGED <<parseVars, normVars>>

\* lines 57-75: validate the snapshot and append the month's row
Record ==
    /\ pc = "response"
    /\ r # {}
    /\ LET r_snapshot == CHOOSE x \in r : TRUE
           new_data == NewData(DateCode(year, month), payload.timestamp, r_snapshot)
       IN files' = [files EXCEPT ![subset].rows = Append(@, CsvRow(new_data))]
    /\ Advance
    /\ pc' = "loop"
    /\ delays' = <<>>
    /\ UNCHANGED <<archive, subset, reset_file, year_start, year_end, metadata,
                   num_retry, payload, r>>
    /\ UNCHANGED <<parseVars, normVars>>

\* the locals of build_metadata are gone once the call has ended
LocalsGone ==
    /\ metadata' = {}
    /\ year' = year_start
    /\ month' = 1
    /\ num_retry' = 1
    /\ payload' = NoPayload
    /\ r' = {}
    /\ delays' = <<>>

\* line 30: the product is exhausted, build_metadata returns
Finish ==
    /\ pc = "loop"
    /\ ~InRange
    /\ pc' = "done"
    /\ LocalsGone
    /\ reset_file' = FALSE
    /\ UNCHANGED <<files, archive, subset, year_start, year_end>>
    /\ UNCHANGED <<parseVars, normVars>>

\* the process is killed between two statements
Interrupt ==
    /\ pc \in {"loop", "response"}
    /\ pc' = "killed"
    /\ LocalsGone
    /\ reset_file' = FALSE
    /\ UNCHANGED <<files, archive, subset, year_start, year_end>>
    /\ UNCHANGED <<parseVars, normVars>>

(***************************************************************************)
(* Text of cells: strip, float, the percentage pattern                     *)
(***************************************************************************)
RECURSIVE LStrip(_, _)
LStrip(s, chars) ==
    IF Len(s) > 0 /\ Char(s, 1) \in chars THEN LStrip(Tail(s), chars) ELSE s

RECURSIVE RStrip(_, _)
RStrip(s, chars) ==
    IF Len(s) > 0 /\ Char(s, Len(s)) \in chars
    THEN RStrip(SubSeq(s, 1, Len(s) - 1), chars)
    ELSE s

\* str.strip() and str.strip("%")
Strip(s) == RStrip(LStrip(s, {" "}), {" "})
StripPercent(s) == RStrip(LStrip(s, {"%"}), {"%"})

AllDigits(s) == \A i \in 1..Len(s) : IsDigit(Char(s, i))

NotANumber == [ok |-> FALSE, v |-> 0]

\* float() of a decimal numeral, in hundredths: blanks around it are allowed, then
\* an optional sign, digits with at most one point and at least one digit.  (The
\* exponent, "inf", "nan" and "_" forms do not occur in the texts of the model;
\* digits past the second decimal are dropped.)
ParseFloat(s) ==
    LET t == Strip(s)
        signed == Len(t) > 0 /\ Char(t, 1) \in {"+", "-"}
        u == IF signed THEN Tail(t) ELSE t
        points == { i \in 1..Len(u) : Char(u, i) = "." }
        ip == IF points = {} THEN u
              ELSE SubSeq(u, 1, (CHOOSE i \in points : TRUE) - 1)
        fp == IF points = {} THEN ""
              ELSE SubSeq(u, (CHOOSE i \in points : TRUE) + 1, Len(u))
        fp2 == SubSeq(fp \o "00", 1, 2)
        mag == 100 * ParseInt(ip) + ParseInt(fp2)
    IN IF /\ Cardinality(points) <= 1
          /\ AllDigits(ip)
          /\ AllDigits(fp)
          /\ Len(ip) + Len(fp) > 0
       THEN [ok |-> TRUE, v |-> IF signed /\ Char(t, 1) = "-" THEN 0 - mag ELSE mag]
       ELSE NotANumber

\* _RE_PERC matches at position i with k leading digits
PercMatchAt(text, i, k) ==
    /\ i + k + 3 <= Len(text)
    /\ (i = 1 \/ Char(text, i - 1) \notin {"-", "+", "("})
    /\ AllDigits(SubSeq(text, i, i + k - 1))
    /\ Char(text, i + k) = "."
    /\ AllDigits(SubSeq(text, i + k + 1, i + k + 2))
    /\ Char(text, i + k + 3) = "%"

PercMatches(text) ==
    { <<i, k>> \in (1..Len(text)) \X (1..3) : PercMatchAt(text, i, k) }

\* re.search(_RE_PERC, text): the leftmost match, or None
SearchPerc(text) ==
    IF PercMatches(text) = {} THEN None
    ELSE LET m == CHOOSE x \in PercMatches(text) :
                      \A y \in PercMatches(text) : x[1] <= y[1]
         IN SubSeq(text, m[1], m[1] + m[2] + 3)

\* more_itertools.grouper(content, n, fillvalue=None)
Grouper(cells, n) ==
    LET count == (Len(cells) + n - 1) \div n
    IN [g \in 1..count |->
          [j \in 1..n |->
              IF (g - 1) * n + j <= Len(cells) THEN cells[(g - 1) * n + j] ELSE None]]

(***************************************************************************)
(* Dictionaries                                                            *)
(***************************************************************************)
EmptyDict == [k \in {} |-> 0]

\* d[k] = v
Put(d, k, v) == [x \in DOMAIN d \cup {k} |-> IF x = k THEN v ELSE d[x]]

(***************************************************************************)
(* The pages                                                               *)
(***************************************************************************)
\* date_codes of metadata rows: either side of each change of layout
PageDates == {"200507", "200508", "200512", "200601", "200811", "200812", "200901"}

OldTitles == {" RAM ", "CPU Speed"}
AggregateCell == "99.00%"

\* a table row as the page lays it out, three or four right-aligned cells wide
OldRow(w, l, v) == IF w = 4 THEN <<l, "", v, AggregateCell>> ELSE <<l, "", v>>

OldRows(w) ==
    { OldRow(w, "1 GB", "40.00%"), OldRow(w, "2 GB", "40.00%"),
      OldRow(w, "2 GB", "12.50%"), OldRow(w, "2 GB", "n/a") }

RECURSIVE OldCells(_, _)
OldCells(w, n) ==
    IF n = 0 THEN {<<>>}
    ELSE { c \o rw : c \in OldCells(w, n - 1), rw \in OldRows(w) }

\* a category block: its <b> title (or none), whether it has a table, the cells
OldTrees ==
    { [b |-> t, table |-> TRUE, cells |-> c] :
        t \in OldTitles, c \in UNION { OldCells(w, n) : w \in {3, 4}, n \in 0..MaxRows } }
    \cup { [b |-> None, table |-> TRUE, cells |-> <<>>],
           [b |-> "RAM", table |-> FALSE, cells |-> <<>>] }

TotalName == "OS Version (total)"
OsFamilies == {"Windows", "OSX", "Linux"}

ModernTitles == {"OS Version", TotalName, None}

\* the groups of three divs (left, mid, right) a category may hold; the last group
\* of a category may be short
ModernGroups ==
    { <<l, "", "45.23% (+0.12%)">> : l \in {"Windows", "OSX", "Linux"} }
    \cup { <<"", " Linux ", "45.23% (+0.12%)">>,
           <<"Ubuntu 12.04", "", "1.05%">>,
           <<"Windows", "", "(+0.12%)">> }

ShortGroups == { <<"Windows", "", None>>, <<"", None, None>> }

\* float(text.strip("%")) of each cell text of the old pages (line 110)
OldCellFloat ==
    LET texts == UNION { { t.cells[i] : i \in 1..Len(t.cells) } : t \in OldTrees }
    IN [c \in texts |-> ParseFloat(StripPercent(c))]

\* re.search(_RE_PERC, right.text) for each value div of the modern pages (line 136)
ModernFound ==
    [g \in ModernGroups \cup ShortGroups |->
        IF g[3] = None THEN None ELSE SearchPerc(g[3])]

\* float(value.group(0).strip("%")) (line 137)
ModernFloat ==
    [g \in { x \in ModernGroups : ModernFound[x] # None } |->
        ParseFloat(StripPercent(ModernFound[g]))]

(***************************************************************************)
(* parse_data_content                                                      *)
(***************************************************************************)
\* lines 161-163
RowYear(date_code) == ParseInt(SubSeq(date_code, 1, 4))
RowMonth(date_code) == ParseInt(SubSeq(date_code, 5, 6))

\* mutant: every page of 2008 goes to the modern parser
UsesModernFrom2008(y, m) == y >= 2008

\* line 170
UsesModern(y, m) == (y = 2008 /\ m = 12) \/ y > 2008

\* line 174
AggRam(y, m) == y = 2005 /\ m > 7

\* line 106
Cols(title, agg) == IF title = "RAM" /\ agg THEN 4 ELSE 3

NoLocals ==
    /\ name' = ""
    /\ content' = <<>>
    /\ cols' = 3
    /\ gi' = 0
    /\ item' = ""
    /\ value' = 0
    /\ seen' = <<>>
    /\ total_titled' = FALSE

\* lines 158-164
ParseDataContent ==
    /\ ppc \in {"idle", "written", "failed"}
    /\ ppc' = "rows"
    /\ steam_hw_survey' = 0
    /\ row' = ""
    /\ agg_ram' = FALSE
    /\ data_json' = EmptyDict
    /\ NoLocals
    /\ UNCHANGED <<metaVars, normVars>>

\* lines 166-175: the next row of the metadata, and the parser its date selects
NextRow ==
    /\ ppc = "rows"
    /\ steam_hw_survey < MaxPages
    /\ \E d \in PageDates :
          /\ row' = d
          /\ IF UsesModern(RowYear(d), RowMonth(d))
             THEN /\ ppc' = "modern"
                  /\ agg_ram' = FALSE
             ELSE /\ ppc' = "old"
                  /\ agg_ram' = AggRam(RowYear(d), RowMonth(d))
    /\ data_json' = EmptyDict
    /\ NoLocals
    /\ UNCHANGED steam_hw_survey
    /\ UNCHANGED <<metaVars, normVars>>

\* lines 176-178: a mapping that is not empty is appended with its date_code
AppendReport ==
    /\ ppc = "returned"
    /\ steam_hw_survey' = IF DOMAIN data_json # {}
                          THEN steam_hw_survey + 1
                          ELSE steam_hw_survey
    /\ ppc' = "rows"
    /\ data_json' = EmptyDict
    /\ row' = ""
    /\ agg_ram' = FALSE
    /\ NoLocals
    /\ UNCHANGED <<metaVars, normVars>>

\* lines 180-181
WriteJson ==
    /\ ppc = "rows"
    /\ ppc' = "written"
    /\ UNCHANGED <<row, agg_ram, data_json, name, content, cols, gi, item, value,
                   steam_hw_survey, seen, total_titled>>
    /\ UNCHANGED <<metaVars, normVars>>

\* an exception leaves the parser and parse_data_content: nothing is returned
Raise ==
    /\ ppc' = "failed"
    /\ data_json' = EmptyDict
    /\ steam_hw_survey' = 0
    /\ row' = ""
    /\ agg_ram' = FALSE
    /\ NoLocals
    /\ UNCHANGED <<metaVars, normVars>>

(***************************************************************************)
(* old_parser                                                              *)
(***************************************************************************)
\* lines 101-106: the next category block
OldTree ==
    /\ ppc = "old"
    /\ \E tree \in OldTrees :
          IF tree.b = None \/ ~tree.table
          THEN Raise
          ELSE /\ name' = Strip(tree.b)
               /\ data_json' = Put(data_json, Strip(tree.b), EmptyDict)
               /\ content' = tree.cells
               /\ cols' = Cols(Strip(tree.b), agg_ram)
               /\ gi' = 0
               /\ ppc' = "oldgroup"
               /\ UNCHANGED <<row, agg_ram, item, value, steam_hw_survey, seen,
                              total_titled>>
               /\ UNCHANGED <<metaVars, normVars>>

\* mutant: the value is read from the last cell of the group
OldValueCellLast(group) == group[Len(group)]

\* lines 107-109: left, mid, *right = group; right, *_ = right
OldValueCell(group) == group[3]

\* lines 107-111: one group of the category
OldGroup ==
    /\ ppc = "oldgroup"
    /\ gi < Len(Grouper(content, cols))
    /\ LET group == Grouper(content, cols)[gi + 1]
           left == group[1]
           right == OldValueCell(group)
       IN IF right = None \/ ~OldCellFloat[right].ok
          THEN Raise
          ELSE /\ item' = Strip(left)
               /\ value' = OldCellFloat[right].v
               /\ data_json' = Put(data_json, name, Put(data_json[name], item', value'))
               /\ gi' = gi + 1
               /\ UNCHANGED <<ppc, row, agg_ram, name, content, cols,
                              steam_hw_survey, seen, total_titled>>
               /\ UNCHANGED <<metaVars, normVars>>

\* line 101: the groups of the category are exhausted
OldTreeDone ==
    /\ ppc = "oldgroup"
    /\ gi = Len(Grouper(content, cols))
    /\ ppc' = "old"
    /\ content' = <<>>
    /\ gi' = 0
    /\ item' = ""
    /\ value' = 0
    /\ UNCHANGED <<row, agg_ram, data_json, name, cols, steam_hw_survey, seen,
                   total_titled>>
    /\ UNCHANGED <<metaVars, normVars>>

\* line 112
OldReturn ==
    /\ ppc = "old"
    /\ ppc' = "returned"
    /\ UNCHANGED <<row, agg_ram, data_json, name, content, cols, gi, item, value,
                   steam_hw_survey, seen, total_titled>>
    /\ UNCHANGED <<metaVars, normVars>>

(***************************************************************************)
(* modern_parser                                                           *)
(***************************************************************************)
\* lines 128-133: the next pair of title and details
ModernTree ==
    /\ ppc = "modern"
    /\ \E title \in ModernTitles :
          IF title = None
          THEN Raise
          ELSE /\ name' = Strip(title)
               /\ data_json' = Put(data_json, Strip(title), EmptyDict)
               /\ total_titled' = (total_titled \/ Strip(title) = TotalName)
               /\ content' = <<>>
               /\ gi' = 0
               /\ ppc' = "moderngroup"
               /\ UNCHANGED <<row, agg_ram, cols, item, value, steam_hw_survey, seen>>
               /\ UNCHANGED <<metaVars, normVars>>

\* mutant: no aggregate category, every item stays in its own category
StoreItemInPlace(dj, cat, it, val) == Put(dj, cat, Put(dj[cat], it, val))

\* mutant: the first family name seen creates the aggregate category
StoreItemFirstSeen(dj, cat, it, val) ==
    IF it \in {"Windows", "OSX", "Linux"}
    THEN IF TotalName \notin DOMAIN dj
         THEN Put(dj, TotalName, Put(EmptyDict, it, val))
         ELSE Put(dj, TotalName, Put(dj[TotalName], it, val))
    ELSE Put(dj, cat, Put(dj[cat], it, val))

\* lines 139-152: where an item is stored
StoreItem(dj, cat, it, val) ==
    IF it \in {"Windows", "OSX", "Linux"}
    THEN IF it = "Windows"
         THEN IF TotalName \notin DOMAIN dj
              THEN Put(dj, TotalName, Put(EmptyDict, it, val))
              ELSE Put(dj, TotalName, Put(dj[TotalName], it, val))
         ELSE IF TotalName \notin DOMAIN dj
              THEN Put(dj, cat, Put(dj[cat], it, val))
              ELSE Put(dj, TotalName, Put(dj[TotalName], it, val))
    ELSE Put(dj, cat, Put(dj[cat], it, val))

\* the family names processed so far, each once, in the order first seen
Seen(sq, it) ==
    IF it \in OsFamilies /\ \A i \in 1..Len(sq) : sq[i] # it
    THEN Append(sq, it)
    ELSE sq

\* lines 134-152: one group of three divs
ModernGroup ==
    /\ ppc = "moderngroup"
    /\ \E group \in ModernGroups \cup ShortGroups :
          LET left == group[1]
              mid == group[2]
              right == group[3]
              found == ModernFound[group]
          IN IF (Strip(left) = "" /\ mid = None) \/ right = None \/ found = None
             THEN Raise
             ELSE /\ item' = IF Strip(left) # "" THEN Strip(left) ELSE Strip(mid)
                  /\ value' = ModernFloat[group].v
                  /\ data_json' = StoreItem(data_json, name, item', value')
                  /\ seen' = Seen(seen, item')
                  /\ UNCHANGED <<ppc, row, agg_ram, name, content, cols, gi,
                                 steam_hw_survey, total_titled>>
                  /\ UNCHANGED <<metaVars, normVars>>

\* line 128: the groups of the category are exhausted
ModernTreeDone ==
    /\ ppc = "moderngroup"
    /\ ppc' = "modern"
    /\ content' = <<>>
    /\ gi' = 0
    /\ item' = ""
    /\ value' = 0
    /\ UNCHANGED <<row, agg_ram, data_json, name, cols, steam_hw_survey, seen,
                   total_titled>>
    /\ UNCHANGED <<metaVars, normVars>>

\* line 153
ModernReturn ==
    /\ ppc = "modern"
    /\ ppc' = "returned"
    /\ UNCHANGED <<row, agg_ram, data_json, name, content, cols, gi, item, value,
                   steam_hw_survey, seen, total_titled>>
    /\ UNCHANGED <<metaVars, normVars>>

ParseInit ==
    /\ ppc = "idle"
    /\ row = ""
    /\ agg_ram = FALSE
    /\ data_json = EmptyDict
    /\ name = ""
    /\ content = <<>>
    /\ cols = 3
    /\ gi = 0
    /\ item = ""
    /\ value = 0
    /\ steam_hw_survey = 0
    /\ seen = <<>>
    /\ total_titled = FALSE

NextParse ==
    \/ ParseDataContent
    \/ NextRow
    \/ OldTree
    \/ OldGroup
    \/ OldTreeDone
    \/ OldReturn
    \/ ModernTree
    \/ ModernGroup
    \/ ModernTreeDone
    \/ ModernReturn
    \/ AppendReport
    \/ WriteJson

(***************************************************************************)
(* clean_and_normalize and the merge of the per-subset tables              *)
(***************************************************************************)
NoData == [exists |-> FALSE, reports |-> <<>>]

NoTable == [exists |-> FALSE, rows |-> EmptyDict]

\* the date codes of the reports of a subset, before and after June 2010: the
\* combined subset starts in 2004, the platform subsets in 2010 (lines 287-292)
ReportDates(s) ==
    IF s = "combined" THEN {"200512", "201001", "201007"}
    ELSE {"201001", "201007", "201012"}

\* the categories of a report as a parser returns them: category -> item -> value
ReportCategories ==
    { ("RAM" :> (("&lt 1 GB" :> 1250) @@ ("1 GB" :> 4000))),
      ("System RAM" :> ("1 GB" :> 4100)),
      ("OS Version (total)" :> ("Windows" :> 9500))
          @@ ("OS Version (64 bit)" :> ("Windows 7" :> 4523)) }

\* a MonthlyReport: the parser's mapping and its date_code (lines 176-177)
Reports(s) == [date_code : ReportDates(s), cats : ReportCategories]

\* the reports of one survey_data file: parse_data_content appends one report per
\* metadata row, and the date codes of a registry are distinct
ReportLists(s) ==
    { l \in UNION { [1..n -> Reports(s)] : n \in 1..MaxReports } :
        \A i, j \in 1..Len(l) : l[i].date_code = l[j].date_code => i = j }

\* the places where r"\s{1,}\(.+(?<!total)\).*$" matches: blanks from i up to an
\* opening parenthesis, at least one character, and a closing parenthesis that
\* does not follow "total"
AnnotationStarts(cat) ==
    { i \in 1..Len(cat) :
        \E j \in (i + 1)..Len(cat) :
            /\ \A x \in i..(j - 1) : Char(cat, x) = " "
            /\ Char(cat, j) = "("
            /\ \E k \in (j + 2)..Len(cat) :
                  /\ Char(cat, k) = ")"
                  /\ ~(k >= 6 /\ SubSeq(cat, k - 5, k - 1) = "total") }

\* lines 215-217: the match, from its leftmost start to the end, is removed
CleanCategory(cat) ==
    IF AnnotationStarts(cat) = {} THEN cat
    ELSE LET i == CHOOSE x \in AnnotationStarts(cat) :
                      \A y \in AnnotationStarts(cat) : x <= y
         IN SubSeq(cat, 1, i - 1)

\* line 219: every "&lt" becomes "<"
RECURSIVE CleanIndex(_)
CleanIndex(s) ==
    IF Len(s) = 0 THEN s
    ELSE IF Len(s) >= 3 /\ SubSeq(s, 1, 3) = "&lt"
         THEN "<" \o CleanIndex(SubSeq(s, 4, Len(s)))
         ELSE Char(s, 1) \o CleanIndex(Tail(s))

\* lines 222-229
cat_rename ==
    ("RAM" :> "System RAM") @@ ("Processor Count" :> "Physical CPUs")
    @@ ("FreeHD" :> "Free Hard Drive Space")
    @@ ("TotalHD" :> "Total Hard Drive Space")
    @@ ("DirectX10 Systems" :> "DirectX 10 Systems")

Rename(cat) == IF cat \in DOMAIN cat_rename THEN cat_rename[cat] ELSE cat

\* line 208: strptime(date_code, "%Y%m")
Date(date_code) ==
    [year |-> ParseInt(SubSeq(date_code, 1, 4)),
     month |-> ParseInt(SubSeq(date_code, 5, 6))]

\* lines 233-234: combined rows dated before 2010-06-01 are pc rows
Platform(s, date) ==
    IF s = "combined" /\ (date.year < 2010 \/ (date.year = 2010 /\ date.month < 6))
    THEN "pc"
    ELSE s

\* the category titles of the reports, cleaned and renamed once
CategoryNames == UNION { DOMAIN c : c \in ReportCategories }

NormalCategory == [c \in CategoryNames |-> Rename(CleanCategory(c))]

Range(f) == { f[x] : x \in DOMAIN f }

\* the place of a table row: the subset, report, category and item it was read
\* from (the loops of lines 193-210)
Places(s, reports) ==
    UNION { UNION { { <<s, rp.date_code, c, i>> : i \in DOMAIN rp.cats[c] } :
                    c \in DOMAIN rp.cats } :
            rp \in Range(reports) }

\* the row read from a place, after the clean-up of lines 215-235
TableRow(s, reports, place) ==
    LET rp == CHOOSE x \in Range(reports) : x.date_code = place[2]
    IN [index    |-> CleanIndex(place[4]),
        perc     |-> rp.cats[place[3]][place[4]],
        category |-> NormalCategory[place[3]],
        date     |-> Date(rp.date_code),
        platform |-> Platform(s, Date(rp.date_code))]

\* the table of line 238, each row at its place; no row is dropped
Table(s, reports) ==
    [place \in Places(s, reports) |-> TableRow(s, reports, place)]

\* parse_data_content has written survey_data_{s}.json (lines 180-181)
ParseContent(s) ==
    /\ ~survey_data[s].exists
    /\ \E l \in ReportLists(s) :
          survey_data' = [survey_data EXCEPT ![s] = [exists |-> TRUE, reports |-> l]]
    /\ UNCHANGED <<tables, final>>
    /\ UNCHANGED <<metaVars, parseVars>>

\* lines 184-238; line 188 when the data file is missing
clean_and_normalize(s, t) ==
    IF survey_data[s].exists
    THEN [t EXCEPT ![s] = [exists |-> TRUE,
                           rows |-> Table(s, survey_data[s].reports)]]
    ELSE t

\* --subset s --process generate_output (lines 298-306)
GenerateOutput(s) ==
    /\ survey_data[s].exists
    /\ tables' = clean_and_normalize(s, tables)
    /\ UNCHANGED <<survey_data, final>>
    /\ UNCHANGED <<metaVars, parseVars>>

\* line 296, cut to the modelled subsets
SubsetOrder == <<"combined", "pc">>

\* line 314: pd.concat keeps every row of every table
Concat(t) ==
    LET places == UNION { DOMAIN t[s].rows : s \in Subsets }
    IN [place \in places |-> t[place[1]].rows[place]]

\* --subset all --process generate_output (lines 298-315): the loop stops at the
\* first subset whose data file is missing; steam_hw_survey_old.parquet is absent
GenerateOutputAll ==
    LET n == CHOOSE k \in 0..Len(SubsetOrder) :
                 /\ \A i \in 1..k : survey_data[SubsetOrder[i]].exists
                 /\ k < Len(SubsetOrder) => ~survey_data[SubsetOrder[k + 1]].exists
        t == [s \in Subsets |->
                IF \E i \in 1..n : SubsetOrder[i] = s
                THEN clean_and_normalize(s, tables)[s]
                ELSE tables[s]]
    IN /\ n > 0
       /\ tables' = t
       /\ final' = IF n = Len(SubsetOrder)
                   THEN [exists |-> TRUE, rows |-> Concat(t)]
                   ELSE final
       /\ UNCHANGED survey_data
       /\ UNCHANGED <<metaVars, parseVars>>

NormInit ==
    /\ survey_data = [s \in Subsets |-> NoData]
    /\ tables = [s \in Subsets |-> NoTable]
    /\ final = NoTable

NextNorm ==
    \/ \E s \in Subsets : ParseContent(s)
    \/ \E s \in Subsets : GenerateOutput(s)
    \/ GenerateOutputAll

MetaInit ==
    /\ files = [s \in Subsets |-> NoFile]
    /\ archive \in (SUBSET Captures) \ {{}}
    /\ pc = "idle"
    /\ subset = "combined"
    /\ reset_file = FALSE
    /\ year_start = 2008
    /\ year_end = 2010
    /\ metadata = {}
    /\ year = 2008
    /\ month = 1
    /\ num_retry = 1
    /\ payload = NoPayload
    /\ r = {}
    /\ delays = <<>>

Init == MetaInit /\ ParseInit /\ NormInit

\* parse_data_content and clean_and_normalize start with build_metadata at rest
InitParse == MetaInit /\ archive = Captures /\ ParseInit /\ NormInit

Next ==
    \/ Start
    \/ Skip
    \/ Lookup
    \/ Retry
    \/ Record
    \/ Finish
    \/ Interrupt

Spec == Init /\ [][Next]_vars

(***************************************************************************)
(* A run of build_metadata that is interrupted and run again with the same *)
(* arguments and no reset.  The running process takes its next step.       *)
(***************************************************************************)
FirstRun ==
    /\ pc = "idle"
    /\ \E s \in Subsets : \E ys \in YearStarts(s), ye \in YearEnds :
          BuildMetadata(s, FALSE, ys, ye)

Rerun ==
    /\ pc \in {"done", "killed"}
    /\ BuildMetadata(subset, FALSE, year_start, year_end)

NextRun ==
    \/ FirstRun
    \/ Rerun
    \/ Skip
    \/ Lookup
    \/ Retry
    \/ Record
    \/ Finish
    \/ Interrupt

SpecRun == Init /\ [][NextRun]_vars /\ WF_vars(Retry) /\ WF_vars(Record)

SpecParse == InitParse /\ [][NextParse]_vars

SpecNorm == InitParse /\ [][NextNorm]_vars

(***************************************************************************)
(* Properties of build_metadata                                            *)
(***************************************************************************)
IsPrefix(a, b) == Len(a) <= Len(b) /\ SubSeq(b, 1, Len(a)) = a

Rows(s) == files[s].rows

RecordedCodes(s) == { Rows(s)[i].date_code : i \in 1..Len(Rows(s)) }

IsMiss(rw) == rw.archive_url = "" /\ rw.file_name = ""

\* a hit: both fields set, from a capture of the archive taken in the month asked
IsHit(rw) ==
    /\ rw.archive_url # ""
    /\ rw.file_name # ""
    /\ \E ts \in archive :
          /\ rw.file_name = ts \o ".txt"
          /\ SubSeq(rw.archive_url, 1, 41) = "http://web.archive.org/web/" \o ts
          /\ SubSeq(ts, 1, 6) = rw.date_code

\* C1: every row of the registry is a hit, with both fields set and the snapshot's
\* timestamp in the year and month of the row's date_code, or a miss with both
\* fields absent; a snapshot of another month is never stored as a hit.
C1_HitOrMiss ==
    \A s \in Subsets : \A i \in 1..Len(Rows(s)) :
        IsHit(Rows(s)[i]) \/ IsMiss(Rows(s)[i])

\* a registry holding a hit, and a miss whose snapshot was of the same month of
\* another year
C1_Witness ==
    /\ archive = {"20080115093012"}
    /\ \E i, j \in 1..Len(Rows("combined")) :
          /\ IsHit(Rows("combined")[i])
          /\ IsMiss(Rows("combined")[j])
          /\ Rows("combined")[j].date_code = "200901"

UniqueDateCodes(rows) ==
    \A i, j \in 1..Len(rows) : rows[i].date_code = rows[j].date_code => i = j

\* the step that starts a run with reset_file set
IsResetStart == pc # "loop" /\ pc' = "loop" /\ reset_file'

\* C2 as stated: in every step, reset runs included, each registry only grows at
\* its end and holds one row per date_code.
C2_AppendOnlyAlways ==
    [][\A s \in Subsets :
          /\ IsPrefix(Rows(s), files'[s].rows)
          /\ UniqueDateCodes(files'[s].rows)]_vars

\* C2 amended: a step other than the start of a reset run only appends to a
\* registry; the start of a reset run empties the registry of its subset and leaves
\* the others alone; a registry never holds two rows of one date_code.
C2_AppendOnlyUnlessReset ==
    [][\A s \in Subsets :
          /\ \/ IsPrefix(Rows(s), files'[s].rows)
             \/ IsResetStart /\ s = subset' /\ files'[s].rows = <<>>
          /\ UniqueDateCodes(files'[s].rows)]_vars

\* a run started without reset on a registry that holds rows has skipped them and
\* appended a further row
C2_Witness ==
    /\ pc = "loop"
    /\ ~reset_file
    /\ metadata # {}
    /\ Len(Rows(subset)) > Cardinality(metadata)

\* the month asked by the last lookup is the last row of the registry
LastRowIsMonthAsked ==
    /\ Len(Rows(subset)) > 0
    /\ PayloadTimestamp(Rows(subset)[Len(Rows(subset))].date_code) = payload.timestamp

\* C3: the k-th retry of a month is preceded by a sleep of 5 x k; the retry loop is
\* left only with a response that holds a snapshot; while the response holds none,
\* no row is written and the request stays that of the same month; and a month
\* being looked up is in the end recorded (unless the process is killed).
C3_Retry ==
    /\ [](pc = "response" =>
            /\ Len(delays) = num_retry - 1
            /\ \A k \in 1..Len(delays) : delays[k] = 5 * k)
    /\ [][(pc = "response" /\ pc' = "loop") => r # {}]_vars
    /\ [][(pc = "response" /\ r = {}) =>
            /\ files' = files
            /\ pc' = "response" => payload' = payload /\ year' = year /\ month' = month]_vars
    /\ ((pc = "response") ~> (pc = "killed" \/ (pc = "loop" /\ LastRowIsMonthAsked)))

\* a snapshot arrived after two retries
C3_Witness ==
    /\ pc = "response"
    /\ delays = <<5, 10>>
    /\ r # {}

\* the date_codes product(range(ys, ye), range(1, MaxMonth + 1)) yields, in order
RECURSIVE DateCodesFrom(_, _, _)
DateCodesFrom(y, m, ye) ==
    IF y >= ye THEN <<>>
    ELSE <<DateCode(y, m)>> \o
         (IF m < MaxMonth THEN DateCodesFrom(y, m + 1, ye) ELSE DateCodesFrom(y + 1, 1, ye))

\* the row the archive's answer gives for a month
RowOf(s, date_code) ==
    LET ts == PayloadTimestamp(date_code)
    IN CsvRow(NewData(date_code, ts, Snapshot(PayloadUrl(s, TsYear(ts)), Closest(ts))))

\* the registry an uninterrupted run leaves
Uninterrupted(s, ys, ye) ==
    LET codes == DateCodesFrom(ys, 1, ye)
    IN [i \in 1..Len(codes) |-> RowOf(s, codes[i])]

\* the months of the current run that come before the current one
EarlierMonths ==
    LET codes == DateCodesFrom(year_start, 1, year_end)
    IN { codes[i] : i \in { j \in 1..Len(codes) : ParseInt(codes[j]) < ParseInt(DateCode(year, month)) } }

\* C9: while a lookup is out, every earlier month of the run is in the registry and
\* the month asked is not; a run that ends, after any interruptions and reruns,
\* leaves the registry of an uninterrupted run.
C9_Resume ==
    /\ pc = "response" =>
          /\ EarlierMonths \subseteq RecordedCodes(subset)
          /\ DateCode(year, month) \notin RecordedCodes(subset)
    /\ pc = "done" => Rows(subset) = Uninterrupted(subset, year_start, year_end)

\* a rerun after an interruption has skipped the recorded months and asks for one
\* that remained
C9_Witness ==
    /\ pc = "response"
    /\ metadata # {}
    /\ Len(Rows(subset)) > Cardinality(metadata)

(***************************************************************************)
(* Properties of the parsers                                               *)
(***************************************************************************)
\* a step of modern_parser that processed one group: item' and value' are its
\* label and value
ModernStep == ppc = "moderngroup" /\ ppc' = "moderngroup"

InSeq(sq, x) == \E i \in 1..Len(sq) : sq[i] = x

StoredIn(dj, cat, it, val) ==
    /\ cat \in DOMAIN dj
    /\ it \in DOMAIN dj[cat]
    /\ dj[cat][it] = val

\* C4: on a page with no category titled "OS Version (total)", Windows, when that
\* category does not exist yet, creates it and is stored in it; Linux processed
\* before any Windows is stored in the category being parsed, and the aggregate
\* category is not created.
C4_TieBreak ==
    [][ModernStep /\ ~total_titled =>
          /\ (item' = "Windows" /\ TotalName \notin DOMAIN data_json) =>
                StoredIn(data_json', TotalName, "Windows", value')
          /\ (item' = "Linux" /\ ~InSeq(seen, "Windows")) =>
                /\ StoredIn(data_json', name, "Linux", value')
                /\ TotalName \notin DOMAIN data_json']_vars

\* Linux was processed before Windows: Linux is in the category parsed, Windows
\* alone in the aggregate category it created
C4_Witness ==
    /\ ppc = "moderngroup"
    /\ ~total_titled
    /\ seen = <<"Linux", "Windows">>
    /\ "Linux" \in DOMAIN data_json[name]
    /\ TotalName \in DOMAIN data_json
    /\ DOMAIN data_json[TotalName] = {"Windows"}

\* C5 as stated: the first family name seen creates the aggregate category and is
\* stored in it; a later one is stored in it if it exists, else in the category
\* being parsed.
C5_FirstSeenCreates ==
    [][ModernStep /\ item' \in OsFamilies =>
          IF seen = <<>> \/ TotalName \in DOMAIN data_json
          THEN StoredIn(data_json', TotalName, item', value')
          ELSE StoredIn(data_json', name, item', value')]_vars

\* C5 amended: Windows is stored in the aggregate category, which it creates when
\* absent; OSX and Linux are stored in the aggregate category if it exists when the
\* item is processed, else in the category being parsed, and do not create it.
C5_OnlyWindowsCreates ==
    [][ModernStep /\ item' \in OsFamilies =>
          IF item' = "Windows" \/ TotalName \in DOMAIN data_json
          THEN StoredIn(data_json', TotalName, item', value')
          ELSE /\ StoredIn(data_json', name, item', value')
               /\ TotalName \notin DOMAIN data_json']_vars

\* OSX came first and stayed in its category; Windows then created the aggregate
\* category, where Linux followed
C5_Witness ==
    /\ ppc = "moderngroup"
    /\ ~total_titled
    /\ seen = <<"OSX", "Windows", "Linux">>
    /\ "OSX" \in DOMAIN data_json[name]
    /\ TotalName \in DOMAIN data_json
    /\ DOMAIN data_json[TotalName] = {"Windows", "Linux"}

\* a step of old_parser that processed group gi + 1 of the block
OldStep == ppc = "oldgroup" /\ ppc' = "oldgroup" /\ gi' = gi + 1

\* the block is left with all its groups processed
OldBlockDone == ppc = "oldgroup" /\ ppc' = "old"

\* the cell numbered j of the group being processed, None past the end of the block
GroupCell(j) ==
    IF gi * cols + j <= Len(content) THEN content[gi * cols + j] ELSE None

\* the percentages written on the pages
PercentOf == ("40.00%" :> 4000) @@ ("12.50%" :> 1250) @@ ("99.00%" :> 9900)

GroupCount == (Len(content) + cols - 1) \div cols

BlockLabels == { content[(g - 1) * cols + 1] : g \in 1..GroupCount }

\* C6 as stated: for a group that has all its cells, the label is the first cell,
\* the value the percentage of the last cell, at both widths; a block of N groups
\* yields N items.
C6_LastCell ==
    [][/\ (OldStep /\ GroupCell(cols) # None) =>
            /\ item' = GroupCell(1)
            /\ GroupCell(cols) \in DOMAIN PercentOf
            /\ value' = PercentOf[GroupCell(cols)]
            /\ StoredIn(data_json', name, item', value')
       /\ OldBlockDone => Cardinality(DOMAIN data_json[name]) = GroupCount]_vars

\* C6 amended: the label is the first cell of the group, the value the percentage
\* of its third cell (the last at width 3, the one before the aggregate cell at
\* width 4); a block of N groups yields one item per distinct label.
C6_ThirdCell ==
    [][/\ OldStep =>
            /\ item' = GroupCell(1)
            /\ GroupCell(3) \in DOMAIN PercentOf
            /\ value' = PercentOf[GroupCell(3)]
            /\ StoredIn(data_json', name, item', value')
       /\ OldBlockDone => DOMAIN data_json[name] = BlockLabels]_vars

\* a RAM block of two groups parsed at width 4
C6_Witness ==
    /\ ppc = "oldgroup"
    /\ name = "RAM"
    /\ cols = 4
    /\ Len(content) = 8
    /\ gi = 2
    /\ DOMAIN data_json["RAM"] = {"1 GB", "2 GB"}

\* C8: a mapping a parser returns holds no empty category.
C8_NoEmptyCategory ==
    ppc = "returned" => \A k \in DOMAIN data_json : DOMAIN data_json[k] # {}

\* C10: the modern parser runs exactly on pages of 2008-12 and later; the old
\* parser groups by 4 exactly in the category RAM of pages of 2005-08 to 2005-12,
\* else by 3.
C10_Dispatch ==
    /\ ppc \in {"modern", "moderngroup"} => ParseInt(row) >= 200812
    /\ ppc \in {"old", "oldgroup"} => ParseInt(row) < 200812
    /\ ppc = "oldgroup" =>
          cols = IF name = "RAM" /\ ParseInt(row) >= 200508 /\ ParseInt(row) <= 200512
                 THEN 4 ELSE 3

\* a RAM block of the page of 2005-12 is being parsed at width 4
C10_Witness ==
    /\ ppc = "oldgroup"
    /\ row = "200512"
    /\ name = "RAM"
    /\ cols = 4
    /\ gi > 0

(***************************************************************************)
(* Properties of clean_and_normalize and the merge                         *)
(***************************************************************************)
Key(rw) == <<rw.date, rw.platform, rw.category, rw.index>>

NoDuplicateKeys(rows) ==
    \A p1, p2 \in DOMAIN rows : Key(rows[p1]) = Key(rows[p2]) => p1 = p2

\* C7 as stated: neither the table written for a subset nor the merged table has
\* two rows with the same (date, platform, category, item label).
C7_NoDuplicateKeys ==
    /\ \A s \in Subsets : NoDuplicateKeys(tables[s].rows)
    /\ NoDuplicateKeys(final.rows)

====
